---- MODULE Spec2Model ----
(***************************************************************************)
(* The edge control loop of CropMind (src/edge/main.go): MQTT message      *)
(* handlers that run concurrently, the sensor-to-gate routing table, the    *)
(* per-gate state records guarded by stateMutex, and the                    *)
(* threshold / hysteresis / cooldown decision of evaluateIrrigationNeeds.   *)
(*                                                                         *)
(* Time is counted in seconds since the process started.  The zero          *)
(* time.Time{} of a fresh GateState is the value ZeroTime.                  *)
(***************************************************************************)
EXTENDS Integers, Sequences, FiniteSets, TLC

(***************************************************************************)
(* Bounds of the model.                                                     *)
(***************************************************************************)
\* number of handler invocations that may be in progress at once
NumHandlers == 2
\* the wall clock stops advancing at MaxTime seconds
MaxTime == 60
\* seconds the wall clock advances in one Tick
TickStep == 15
\* number of soil-moisture readings delivered in one run
MaxReadings == 3
\* number of messages the broker holds for its subscribers at a time
MaxInFlight == 2
\* number of storeSensorHistory calls that may be in progress at once
NumCallers == 2
\* number of entries pushed to the history list in one run
MaxPushes == 1002
\* length of the longest history list a history request is made on
MaxStored == 120

(***************************************************************************)
(* Configuration (src/edge/main.go, const block).                           *)
(***************************************************************************)
dryThreshold == 40
wetThreshold == 70
commandCooldown == 30

\* initializeGateStates creates gates 1..NumGates
NumGates == 22
Gates == 1..NumGates

\* time.Time{}: the zero time, long before the process started
ZeroTime == -1
\* the largest time.Duration; time.Time.Sub saturates at it.  The value
\* stands for 2^63-1 ns, which is more than any duration the clock produces.
maxDuration == 2147483647

\* Sensor ID to Gate ID mapping
sensorToGateMap ==
    [s \in 9001..9038 |-> IF s <= 9019 THEN 1 ELSE 2]

(***************************************************************************)
(* Inbound messages.  A payload is either text that json.Unmarshal rejects  *)
(* or a SensorData record.                                                  *)
(***************************************************************************)
SensorIDs == {9001, 9002, 9020, 9999}
Values == {25, 40, 55, 70, 80}
Timestamps == {0, 1}

\* the soil-moisture readings delivered: every value for sensor 9001, a dry
\* value for the second sensor of gate 1, for the sensor of gate 2 and for
\* the sensor that is not mapped
Readings ==
    ({9001} \X Values) \cup ({9002, 9020, 9999} \X {25})

SoilMoistureData ==
    {d \in [SensorID : SensorIDs, Type : {"soil-moisture-sensors"},
            Value : Values, Timestamp : Timestamps] :
        <<d.SensorID, d.Value>> \in Readings}

\* messages of the other subscribed topics, and one of a type that the
\* switch of messageHandler does not name
OtherData ==
    [SensorID : {9001}, Value : {25},
     Type : {"water-flow-sensors", "soil-temperature-sensors", "water-gate-sensors"},
     Timestamp : {0}]

SensorData == SoilMoistureData \cup OtherData

\* the SensorData json.Unmarshal leaves behind when it fails
ZeroData == [SensorID |-> 0, Type |-> "", Value |-> 0, Timestamp |-> 0]

\* the SensorData json.Unmarshal leaves behind when it fails on a value of
\* the wrong JSON type ("value": "wet"): the other fields are decoded
PartialData ==
    [SensorID |-> 9001, Type |-> "soil-moisture-sensors", Value |-> 0,
     Timestamp |-> 0]

\* a payload: wellFormed says whether json.Unmarshal accepts it, data is
\* what it decodes to
Payloads ==
    [wellFormed : {TRUE}, data : SensorData]
        \cup {[wellFormed |-> FALSE, data |-> ZeroData]}

Handlers == 1..NumHandlers

\* the local variables of an invocation: of evaluateIrrigationNeeds
\* (sensorID .. command), and of sendGateCommand: whether the token of the
\* publish holds an error, and the line printed after token.Wait()
NoFrame ==
    [sensorID |-> 0, moistureLevel |-> 0, gateID |-> 0,
     checkedAt |-> 0, timeSinceLastCommand |-> 0, command |-> "NONE",
     tokenError |-> FALSE, printed |-> ""]

\* the sensor whose history list is followed; the readings published
\* elsewhere in the model are of other sensors
HistorySensor == 9002

HistoryCallers == 1..NumCallers

\* the empty list of a key that does not exist yet, no call under way,
\* no request made
NoHistory ==
    [list |-> <<>>, calls |-> [c \in HistoryCallers |-> "idle"],
     response |-> <<>>]

VARIABLES
    now,                 \* the wall clock
    gateStates,          \* gateID -> GateState
    soilMoistureStates,  \* sensorID -> last moisture value (partial map)
    stateMutex,          \* 0 when free, else the handler holding the lock
    pc,                  \* handler -> position in the handler's code
    frame,               \* handler -> local variables of the invocation
    published,           \* gateID -> commands handed to client.Publish on
                         \* the gate's command topic, oldest first
    received,            \* number of soil-moisture readings delivered so far
    lastLog,             \* what messageHandler printed last about a message:
                         \* "parse-error", or the type of the message
                         \* received; "" before the first message
    wire,                \* the broker: messages routed to a subscriber and
                         \* not yet handed to its handler
    simLast,             \* simulator: the message of its last publish
    anyGateOpen,         \* simulator: Simulator.anyGateOpen
    gateCommanded,       \* gateID -> action of the last OPEN or CLOSE command
                         \* handleMessage decoded for the gate, "" if none
    testerPc,            \* gate tester: number of test commands sent
    redis,               \* cloud server: the sets "sensors" and "gates"
    startup,             \* edge processor: the configuration of the build
                         \* and the position of main
    history              \* cloud server: the Redis list of the history of
                         \* sensor HistorySensor, newest entry first; the
                         \* position of each storeSensorHistory call; and
                         \* the response of the last history request

\* the state of the processes around the edge processor
sysvars ==
    <<wire, simLast, anyGateOpen, gateCommanded, testerPc, redis, startup,
      history>>

vars ==
    <<now, gateStates, soilMoistureStates, stateMutex, pc, frame, published,
      received, lastLog, wire, simLast, anyGateOpen, gateCommanded, testerPc,
      redis, startup, history>>

(***************************************************************************)
(* Pure helpers.                                                            *)
(***************************************************************************)
\* variant: the zero time counted as a clock reading just before the start
SinceUnsaturated(t, clock) == clock - t

\* time.Since(t): now - t, saturated at maxDuration (the zero time is more
\* than maxDuration before any wall-clock reading)
Since(t, clock) == IF t = ZeroTime THEN maxDuration ELSE clock - t

\* variant: a Lock() that never waits
LockAlwaysFree(mutex) == TRUE

\* stateMutex.Lock() returns only when no handler holds the lock
LockFree(mutex) == mutex = 0

\* variant: one cooldown timer for all gates, the latest command of any gate
LastCommandOfAny(states, gateID) ==
    CHOOSE t \in {states[g].LastCommand : g \in DOMAIN states} :
        \A g \in DOMAIN states : states[g].LastCommand <= t

\* gate.LastCommand of the record looked up for the gate of the reading
LastCommandOf(states, gateID) == states[gateID].LastCommand

\* variant: a reading exactly commandCooldown after the command is blocked
InCooldownAtOrBelow(elapsed) == elapsed <= commandCooldown

\* variant: no cooldown test
InCooldownNever(elapsed) == FALSE

\* the cooldown test of evaluateIrrigationNeeds
InCooldown(elapsed) == elapsed < commandCooldown

\* variant: OPEN without the test of the gate's state
ShouldOpenNoGuard(moistureLevel, isOpen) == moistureLevel < dryThreshold

\* variant: OPEN at the threshold too
ShouldOpenAtOrBelow(moistureLevel, isOpen) ==
    moistureLevel <= dryThreshold /\ ~isOpen

\* the first branch of the decision: too dry and the gate is closed
ShouldOpen(moistureLevel, isOpen) == moistureLevel < dryThreshold /\ ~isOpen

\* variant: no CLOSE branch
ShouldCloseNever(moistureLevel, isOpen) == FALSE

\* variant: CLOSE at the threshold too
ShouldCloseAtOrAbove(moistureLevel, isOpen) ==
    moistureLevel >= wetThreshold /\ isOpen

\* the second branch of the decision: too wet and the gate is open
ShouldClose(moistureLevel, isOpen) == moistureLevel > wetThreshold /\ isOpen

\* variant: a sensor that is not in the map falls to gate 1
LookupGateDefault(sensorID) ==
    IF sensorID \in DOMAIN sensorToGateMap
    THEN [gateID |-> sensorToGateMap[sensorID], exists |-> TRUE]
    ELSE [gateID |-> 1, exists |-> TRUE]

\* gateID, exists := sensorToGateMap[sensorID]
LookupGate(sensorID) ==
    IF sensorID \in DOMAIN sensorToGateMap
    THEN [gateID |-> sensorToGateMap[sensorID], exists |-> TRUE]
    ELSE [gateID |-> 0, exists |-> FALSE]

\* the command evaluateIrrigationNeeds decides on, "NONE" when it sends none
Decide(moistureLevel, isOpen) ==
    IF ShouldOpen(moistureLevel, isOpen) THEN "OPEN"
    ELSE IF ShouldClose(moistureLevel, isOpen) THEN "CLOSE"
    ELSE "NONE"

\* the threshold named in the reason string of a command
ReasonThreshold(command) ==
    IF command = "OPEN" THEN dryThreshold ELSE wetThreshold

\* variant: the gate is never marked open
IsOpenAfterStuck(command) == FALSE

\* gate.IsOpen after a command: true after OPEN, false after CLOSE
IsOpenAfter(command) == command = "OPEN"

\* variant: LastCommand is left at the zero time
CommandTimeZero(checkedAt, clock) == ZeroTime

\* variant: LastCommand takes the instant of the cooldown check
CommandTimeAtCheck(checkedAt, clock) == checkedAt

\* the time gate.LastCommand is set to: time.Now() read after
\* sendGateCommand has returned
CommandTime(checkedAt, clock) == clock

(***************************************************************************)
(* Initial state: main after initializeGateStates, connectMQTT, Subscribe.  *)
(***************************************************************************)
\* variant: only the first gate gets a record
initializeFirstGateOnly ==
    [g \in {1} |-> [GateID |-> g, IsOpen |-> FALSE, LastCommand |-> ZeroTime]]

initializeGateStates ==
    [g \in Gates |-> [GateID |-> g, IsOpen |-> FALSE, LastCommand |-> ZeroTime]]

\* the gates that commands are sent for: those of sensorToGateMap, which are
\* also those of the gate tester
CommandedGates == {sensorToGateMap[s] : s \in DOMAIN sensorToGateMap}

\* the const block and the routing table as written, by the gates it names
Configuration ==
    [dryThreshold |-> dryThreshold, wetThreshold |-> wetThreshold,
     routedGates |-> CommandedGates]

\* main at "Edge Processor is running": `subscribed` topics subscribed to
Running(config) ==
    [config |-> config, phase |-> "running", subscribed |-> 3]

Init ==
    /\ startup = Running(Configuration)
    /\ now = 0
    /\ gateStates = initializeGateStates
    /\ soilMoistureStates = <<>>
    /\ stateMutex = 0
    /\ pc = [h \in Handlers |-> "idle"]
    /\ frame = [h \in Handlers |-> NoFrame]
    /\ published = [g \in Gates |-> <<>>]
    /\ received = 0
    /\ lastLog = ""
    /\ wire = {}
    /\ simLast = <<>>
    /\ anyGateOpen = FALSE
    /\ gateCommanded = [g \in CommandedGates |-> ""]
    /\ testerPc = 0
    /\ redis = [sensors |-> {}, gates |-> {}]
    /\ history = NoHistory

(***************************************************************************)
(* The wall clock.                                                          *)
(***************************************************************************)
Tick ==
    /\ now + TickStep <= MaxTime
    /\ now' = now + TickStep
    /\ UNCHANGED <<gateStates, soilMoistureStates, stateMutex, pc, frame,
                   published, received, lastLog, sysvars>>

(***************************************************************************)
(* messageHandler: parse, log, dispatch on data.Type; handleSoilMoisture    *)
(* up to its call of evaluateIrrigationNeeds.  A handler that has a         *)
(* soil-moisture reading waits in stateMutex.Lock() until the lock is free  *)
(* and holds it for one assignment, so the delivery, the Lock, the          *)
(* assignment and the Unlock are one step, taken when the lock is free.     *)
(***************************************************************************)
\* variant: handleSoilMoisture keeps no moisture value
storeNothing(states, data) == states

\* soilMoistureStates[data.SensorID] = data.Value
storeMoisture(states, data) ==
    [s \in (DOMAIN states) \cup {data.SensorID} |->
        IF s = data.SensorID THEN data.Value ELSE states[s]]

\* variant: water-flow messages are handled as soil-moisture readings
IsSoilMoistureOrFlow(type) ==
    type \in {"soil-moisture-sensors", "water-flow-sensors"}

\* case "soil-moisture-sensors" of the switch on data.Type
IsSoilMoisture(type) == type = "soil-moisture-sensors"

\* variant: the error of json.Unmarshal is not looked at
UnmarshalNeverFails(payload) == FALSE

\* err != nil after json.Unmarshal(msg.Payload(), &data)
UnmarshalFails(payload) == ~payload.wellFormed

\* the line messageHandler prints about a payload: the parse error, or the
\* "Received" line of a message of its type
LogLine(payload) ==
    IF UnmarshalFails(payload) THEN "parse-error" ELSE payload.data.Type

\* variant: the producer's timestamp is taken as the instant of the check
ReadingOfStamped(data) ==
    [NoFrame EXCEPT !.sensorID = data.SensorID, !.moistureLevel = data.Value,
                    !.checkedAt = data.Timestamp]

\* evaluateIrrigationNeeds(data.SensorID, data.Value): what of the message
\* the evaluation is given
ReadingOf(data) ==
    [NoFrame EXCEPT !.sensorID = data.SensorID, !.moistureLevel = data.Value]

\* messageHandler on one payload, its printing apart
handle(h, payload) ==
    /\ pc[h] = "idle"
    /\ IF UnmarshalFails(payload)
       THEN \* json.Unmarshal fails: log and return
            UNCHANGED <<pc, frame, received, soilMoistureStates>>
       ELSE IF IsSoilMoisture(payload.data.Type)
       THEN \* handleSoilMoisture(data)
            /\ received < MaxReadings
            /\ received' = received + 1
            /\ LockFree(stateMutex)
            /\ soilMoistureStates' = storeMoisture(soilMoistureStates, payload.data)
            /\ pc' = [pc EXCEPT ![h] = "evaluate"]
            /\ frame' = [frame EXCEPT ![h] = ReadingOf(payload.data)]
       ELSE \* water-flow, soil-temperature: print only; others: nothing
            UNCHANGED <<pc, frame, received, soilMoistureStates>>
    /\ UNCHANGED <<now, gateStates, stateMutex, published>>

\* a message of the set payloads is delivered to handler h; what is printed
\* is not recorded
deliver(h, payloads) ==
    \E payload \in payloads :
        handle(h, payload) /\ UNCHANGED <<lastLog, sysvars>>

\* the same, with the line printed recorded in lastLog
deliverLogged(h, payloads) ==
    \E payload \in payloads :
        handle(h, payload) /\ lastLog' = LogLine(payload) /\ UNCHANGED sysvars

messageHandler(h) == deliver(h, Payloads)

(***************************************************************************)
(* evaluateIrrigationNeeds.                                                 *)
(***************************************************************************)
\* the sensor is not in sensorToGateMap: return
evaluateUnmapped(h) ==
    /\ pc[h] = "evaluate"
    /\ ~LookupGate(frame[h].sensorID).exists
    /\ pc' = [pc EXCEPT ![h] = "idle"]
    /\ frame' = [frame EXCEPT ![h] = NoFrame]
    /\ UNCHANGED <<now, gateStates, soilMoistureStates, stateMutex, published,
                   received, lastLog, sysvars>>

\* the sensor is mapped: gateID is set and stateMutex.Lock() is taken
evaluateLock(h) ==
    /\ pc[h] = "evaluate"
    /\ LookupGate(frame[h].sensorID).exists
    /\ LockFree(stateMutex)
    /\ stateMutex' = h
    /\ frame' = [frame EXCEPT ![h].gateID = LookupGate(frame[h].sensorID).gateID]
    /\ pc' = [pc EXCEPT ![h] = "checkCooldown"]
    /\ UNCHANGED <<now, gateStates, soilMoistureStates, published,
                   received, lastLog, sysvars>>

\* gate := gateStates[gateID]; time.Since(gate.LastCommand); the cooldown
\* test; the threshold tests
evaluateDecide(h) ==
    /\ pc[h] = "checkCooldown"
    /\ LET gate == gateStates[frame[h].gateID]
           elapsed == Since(LastCommandOf(gateStates, frame[h].gateID), now)
           command == IF InCooldown(elapsed) THEN "NONE"
                      ELSE Decide(frame[h].moistureLevel, gate.IsOpen)
       IN  /\ frame' = [frame EXCEPT ![h].checkedAt = now,
                                     ![h].timeSinceLastCommand = elapsed,
                                     ![h].command = command]
           /\ pc' = [pc EXCEPT ![h] =
                        IF command = "NONE" THEN "unlock" ELSE "sendGateCommand"]
    /\ UNCHANGED <<now, gateStates, soilMoistureStates, stateMutex, published,
                   received, lastLog, sysvars>>

\* sendGateCommand up to client.Publish: the payload is built and handed to
\* the client on the topic of the gate
publishCommand(h) ==
    /\ pc[h] = "sendGateCommand"
    /\ LET g == frame[h].gateID
           payload == [gate_id |-> g,
                       command |-> frame[h].command,
                       reason |-> [moisture |-> frame[h].moistureLevel,
                                   threshold |-> ReasonThreshold(frame[h].command)],
                       timestamp |-> now]
       IN  published' = [published EXCEPT ![g] = Append(@, payload)]
    /\ pc' = [pc EXCEPT ![h] = "tokenWait"]
    /\ UNCHANGED <<now, gateStates, soilMoistureStates, stateMutex, frame,
                   received, lastLog>>

\* the same with no subscriber looked at
sendGateCommand(h) == publishCommand(h) /\ UNCHANGED sysvars

\* variant: evaluateIrrigationNeeds gives up when the publish failed
AfterWaitSkipOnError(tokenError) ==
    IF tokenError THEN "unlock" ELSE "setGateState"

\* where the handler goes on after token.Wait(): sendGateCommand returns
\* nothing and the caller writes the gate state, whatever the token holds
AfterWait(tokenError) == "setGateState"

\* the line sendGateCommand prints after token.Wait(): the COMMAND line,
\* whatever the token holds
CommandLine(tokenError) == "COMMAND"

\* token.Wait() returns: the publish succeeded or failed.  token.Error() is
\* not read; the COMMAND line is printed and sendGateCommand returns
tokenWait(h) ==
    /\ pc[h] = "tokenWait"
    /\ \E failed \in BOOLEAN :
        /\ frame' = [frame EXCEPT ![h].tokenError = failed,
                                  ![h].printed = CommandLine(failed)]
        /\ pc' = [pc EXCEPT ![h] = AfterWait(failed)]
    /\ UNCHANGED <<now, gateStates, soilMoistureStates, stateMutex, published,
                   received, lastLog, sysvars>>

\* gate.IsOpen = ...; gate.LastCommand = time.Now()
setGateState(h) ==
    /\ pc[h] = "setGateState"
    /\ gateStates' = [gateStates EXCEPT
            ![frame[h].gateID].IsOpen = IsOpenAfter(frame[h].command),
            ![frame[h].gateID].LastCommand = CommandTime(frame[h].checkedAt, now)]
    /\ pc' = [pc EXCEPT ![h] = "unlock"]
    /\ UNCHANGED <<now, soilMoistureStates, stateMutex, frame, published,
                   received, lastLog, sysvars>>

\* the deferred stateMutex.Unlock(); the handler returns
evaluateUnlock(h) ==
    /\ pc[h] = "unlock"
    /\ stateMutex' = 0
    /\ pc' = [pc EXCEPT ![h] = "idle"]
    /\ frame' = [frame EXCEPT ![h] = NoFrame]
    /\ UNCHANGED <<now, gateStates, soilMoistureStates, published,
                   received, lastLog, sysvars>>

Handler(h) ==
    \/ messageHandler(h)
    \/ evaluateUnmapped(h)
    \/ evaluateLock(h)
    \/ evaluateDecide(h)
    \/ sendGateCommand(h)
    \/ tokenWait(h)
    \/ setGateState(h)
    \/ evaluateUnlock(h)

Next ==
    \/ Tick
    \/ \E h \in Handlers : Handler(h)

Spec == Init /\ [][Next]_vars

(***************************************************************************)
(* Concurrent delivery of readings that each call for OPEN on gate 1: the   *)
(* same handlers and clock, with the payloads limited to dry readings of    *)
(* the sensors of gate 1.                                                   *)
(***************************************************************************)
DryGate1Payloads ==
    {p \in Payloads :
        /\ p.wellFormed
        /\ p.data.Type = "soil-moisture-sensors"
        /\ p.data.SensorID \in DOMAIN sensorToGateMap
        /\ sensorToGateMap[p.data.SensorID] = 1
        /\ p.data.Value < dryThreshold}

NextConcurrent ==
    \/ Tick
    \/ \E h \in Handlers :
        \/ deliver(h, DryGate1Payloads)
        \/ evaluateLock(h)
        \/ evaluateDecide(h)
        \/ sendGateCommand(h)
        \/ tokenWait(h)
        \/ setGateState(h)
        \/ evaluateUnlock(h)

SpecConcurrent == Init /\ [][NextConcurrent]_vars

(***************************************************************************)
(* The dispatch of messageHandler observed through what it prints: the      *)
(* same handlers and clock, with lastLog recording the line printed for     *)
(* each message.  The payloads are the undecodable one, the one decoded     *)
(* in part before the error, the messages of the other types, and a dry     *)
(* and a wet reading of sensor 9001.                                        *)
(***************************************************************************)
DispatchPayloads ==
    {p \in Payloads :
        \/ ~p.wellFormed
        \/ p.data \in OtherData
        \/ p.data.SensorID = 9001 /\ p.data.Value \in {25, 80}
                                  /\ p.data.Timestamp = 0}
        \cup {[wellFormed |-> FALSE, data |-> PartialData]}

NextDispatch ==
    \/ Tick
    \/ \E h \in Handlers :
        \/ deliverLogged(h, DispatchPayloads)
        \/ evaluateLock(h)
        \/ evaluateDecide(h)
        \/ sendGateCommand(h)
        \/ tokenWait(h)
        \/ setGateState(h)
        \/ evaluateUnlock(h)

SpecDispatch == Init /\ [][NextDispatch]_vars

(***************************************************************************)
(* The processes around the edge processor: the broker, the sensor          *)
(* simulator, the gate tester and the cloud server.  A topic is the         *)
(* sequence of its levels.                                                  *)
(***************************************************************************)
\* %d of fmt.Sprintf for the IDs used here
Itoa(n) ==
    CASE n = 1 -> "1" [] n = 2 -> "2" [] n = 9001 -> "9001"
      [] n = 9002 -> "9002" [] n = 9020 -> "9020" [] n = 9999 -> "9999"
      [] OTHER -> "0"

\* whether a subscription filter matches a topic: "+" stands for one level,
\* "#" for all the levels that remain
RECURSIVE TopicMatches(_, _)
TopicMatches(filter, topic) ==
    IF filter = <<>> THEN topic = <<>>
    ELSE IF Head(filter) = "#" THEN TRUE
    ELSE IF topic = <<>> THEN FALSE
    ELSE /\ Head(filter) = "+" \/ Head(filter) = Head(topic)
         /\ TopicMatches(Tail(filter), Tail(topic))

\* the topic filters each process subscribes to
EdgeSubscriptions ==
    {<<"farm", "sensors", "soil-moisture-sensors", "+">>,
     <<"farm", "sensors", "water-flow-sensors", "+">>,
     <<"farm", "sensors", "soil-temperature-sensors", "+">>}

SimulatorSubscriptions == {<<"farm", "commands", "water-gate-sensors", "+">>}

CloudSubscriptions ==
    {<<"farm", "sensors", "#">>, <<"farm", "gates", "#">>,
     <<"gates", "+", "status">>}

Clients == {"edge", "simulator", "cloud"}

Subscriptions(client) ==
    CASE client = "edge" -> EdgeSubscriptions
      [] client = "simulator" -> SimulatorSubscriptions
      [] client = "cloud" -> CloudSubscriptions

Subscribed(client, topic) ==
    \E filter \in Subscriptions(client) : TopicMatches(filter, topic)

\* what the broker does with a publish: one copy for every subscriber with
\* a matching filter
Route(topic, payload) ==
    {[to |-> client, topic |-> topic, payload |-> payload] :
        client \in {c \in Clients : Subscribed(c, topic)}}

\* the broker takes a publish when it has room for its copies
Publish(topic, payload) ==
    /\ Cardinality(wire \cup Route(topic, payload)) <= MaxInFlight
    /\ wire' = wire \cup Route(topic, payload)

\* the topic sendGateCommand and the gate tester publish a command on
CommandTopic(gateID) ==
    <<"farm", "commands", "water-gate-sensors", Itoa(gateID)>>

\* the topic Simulator.publish builds: "farm/%s/%d"
SimulatorTopic(data) == <<"farm", data.Type, Itoa(data.SensorID)>>

\* the topic format of the README: farm/sensors/<sensor-type>/<sensor-id>
SensorTopic(data) == <<"farm", "sensors", data.Type, Itoa(data.SensorID)>>

\* a reading published in the format of the README, by a sensor in the field
FieldPayloads ==
    {p \in Payloads :
        /\ p.wellFormed
        /\ p.data.Type = "soil-moisture-sensors"
        /\ p.data.SensorID = 9001
        /\ p.data.Value \in {25, 80}
        /\ p.data.Timestamp = 0}

fieldSensorPublish ==
    /\ \E p \in FieldPayloads :
          Publish(SensorTopic(p.data), p)
    /\ UNCHANGED <<now, gateStates, soilMoistureStates, stateMutex, pc, frame,
                   published, received, lastLog, simLast, anyGateOpen,
                   gateCommanded, testerPc, redis, startup, history>>

\* generateValue for a water-flow sensor: a value of the range GatesOpen or
\* of the range GatesClosed (scenario "Drought Alert")
FlowValue(open) == IF open THEN 20 ELSE 0

\* publishAll: the data of a soil-moisture and of a water-flow sensor
SimulatorData ==
    {[SensorID |-> 9001, Type |-> "soil-moisture-sensors", Value |-> 25,
      Timestamp |-> 0],
     [SensorID |-> 9001, Type |-> "water-flow-sensors",
      Value |-> FlowValue(anyGateOpen), Timestamp |-> 0]}

\* Simulator.publish
simulatorPublish ==
    /\ \E data \in SimulatorData :
          /\ simLast' = [topic |-> SimulatorTopic(data), data |-> data]
          /\ Publish(SimulatorTopic(data), [wellFormed |-> TRUE, data |-> data])
    /\ UNCHANGED <<now, gateStates, soilMoistureStates, stateMutex, pc, frame,
                   published, received, lastLog, anyGateOpen, gateCommanded,
                   testerPc, redis, startup, history>>

\* the test sequence of the gate tester
tests ==
    <<[gateID |-> 1, action |-> "OPEN"], [gateID |-> 2, action |-> "OPEN"],
      [gateID |-> 1, action |-> "CLOSE"], [gateID |-> 2, action |-> "CLOSE"]>>

\* sendCommand of the gate tester, for the next test of the sequence; the
\* tester sleeps three seconds after a command, by when the simulator has
\* handled it
sendCommand ==
    /\ testerPc < Len(tests)
    /\ \A m \in wire : m.to # "simulator"
    /\ LET test == tests[testerPc + 1]
           cmd == [gate_id |-> test.gateID, action |-> test.action,
                   timestamp |-> now]
       IN  Publish(CommandTopic(test.gateID), cmd)
    /\ testerPc' = testerPc + 1
    /\ UNCHANGED <<now, gateStates, soilMoistureStates, stateMutex, pc, frame,
                   published, received, lastLog, simLast, anyGateOpen,
                   gateCommanded, redis, startup, history>>

\* json.Unmarshal into the simulator's GateCommand: the keys gate_id, action
\* and timestamp are read, a key that is absent leaves the zero value, other
\* keys are skipped
DecodeGateCommand(payload) ==
    [GateID |-> payload.gate_id,
     Action |-> IF "action" \in DOMAIN payload THEN payload.action ELSE "",
     Timestamp |-> payload.timestamp]

\* Simulator.anyGateOpen after handleMessage has handled cmd
AnyGateOpenAfter(open, commanded, cmd) ==
    IF cmd.Action = "OPEN" THEN TRUE
    ELSE IF cmd.Action = "CLOSE" THEN FALSE
    ELSE open

\* Simulator.handleMessage on a command routed to the simulator
handleMessage ==
    /\ \E m \in wire :
          /\ m.to = "simulator"
          /\ wire' = wire \ {m}
          /\ LET cmd == DecodeGateCommand(m.payload)
             IN  /\ anyGateOpen' = AnyGateOpenAfter(anyGateOpen, gateCommanded, cmd)
                 /\ gateCommanded' =
                       IF cmd.Action \in {"OPEN", "CLOSE"}
                          /\ cmd.GateID \in CommandedGates
                       THEN [gateCommanded EXCEPT ![cmd.GateID] = cmd.Action]
                       ELSE gateCommanded
    /\ UNCHANGED <<now, gateStates, soilMoistureStates, stateMutex, pc, frame,
                   published, received, lastLog, simLast, testerPc, redis, startup, history>>

\* strings.HasPrefix(topic, prefix + "/")
HasPrefix(topic, prefix) ==
    /\ Len(topic) > Len(prefix)
    /\ SubSeq(topic, 1, Len(prefix)) = prefix

\* MQTTHandler.messageHandler of the cloud server on a message routed to it
cloudMessageHandler ==
    /\ \E m \in wire :
          /\ m.to = "cloud"
          /\ wire' = wire \ {m}
          /\ redis' =
                IF HasPrefix(m.topic, <<"farm", "sensors">>)
                THEN IF m.payload.wellFormed
                     THEN [redis EXCEPT !.sensors = @ \cup {m.payload.data.SensorID}]
                     ELSE redis
                ELSE IF \/ HasPrefix(m.topic, <<"farm", "gates">>)
                        \/ HasPrefix(m.topic, <<"gates">>)
                THEN [redis EXCEPT !.gates = @ \cup {m.payload.gate_id}]
                ELSE redis
    /\ UNCHANGED <<now, gateStates, soilMoistureStates, stateMutex, pc, frame,
                   published, received, lastLog, simLast, anyGateOpen,
                   gateCommanded, testerPc, startup, history>>

\* messageHandler of the edge processor on a message routed to it
receive(h) ==
    /\ \E m \in wire :
          /\ m.to = "edge"
          /\ handle(h, m.payload)
          /\ wire' = wire \ {m}
    /\ UNCHANGED <<lastLog, simLast, anyGateOpen, gateCommanded, testerPc, redis, startup, history>>

\* sendGateCommand with the broker routing the command to its subscribers
sendGateCommandRouted(h) ==
    /\ publishCommand(h)
    /\ LET g == frame[h].gateID
       IN  Publish(CommandTopic(g), published'[g][Len(published'[g])])
    /\ UNCHANGED <<simLast, anyGateOpen, gateCommanded, testerPc, redis, startup, history>>

\* the handler of the edge processor that the system is observed with
SystemHandlers == {1}

NextSystem ==
    \/ Tick
    \/ fieldSensorPublish
    \/ simulatorPublish
    \/ handleMessage
    \/ cloudMessageHandler
    \/ \E h \in SystemHandlers :
        \/ receive(h)
        \/ evaluateLock(h)
        \/ evaluateDecide(h)
        \/ sendGateCommandRouted(h)
        \/ tokenWait(h)
        \/ setGateState(h)
        \/ evaluateUnlock(h)

SpecSystem == Init /\ [][NextSystem]_vars

(***************************************************************************)
(* The gate tester run against the simulator: the tester sends its test     *)
(* sequence, the simulator handles the commands and goes on publishing.     *)
(***************************************************************************)
NextGateTest ==
    \/ Tick
    \/ sendCommand
    \/ handleMessage
    \/ simulatorPublish

SpecGateTest == Init /\ [][NextGateTest]_vars

(***************************************************************************)
(* The startup of the edge processor, main, for the configuration as        *)
(* written and for builds with other values in the const block and the      *)
(* routing table: initializeGateStates, connectMQTT, and the three          *)
(* Subscribe calls; a failed Connect or Subscribe ends in log.Fatalf.       *)
(***************************************************************************)
Configurations ==
    [dryThreshold : {dryThreshold, wetThreshold},
     wetThreshold : {dryThreshold, wetThreshold},
     routedGates : {Configuration.routedGates, {1, NumGates + 1}}]

InitStartup ==
    /\ \E config \in Configurations :
          startup = [config |-> config, phase |-> "start", subscribed |-> 0]
    /\ now = 0
    /\ gateStates = <<>>
    /\ soilMoistureStates = <<>>
    /\ stateMutex = 0
    /\ pc = [h \in Handlers |-> "idle"]
    /\ frame = [h \in Handlers |-> NoFrame]
    /\ published = [g \in Gates |-> <<>>]
    /\ received = 0
    /\ lastLog = ""
    /\ wire = {}
    /\ simLast = <<>>
    /\ anyGateOpen = FALSE
    /\ gateCommanded = [g \in CommandedGates |-> ""]
    /\ testerPc = 0
    /\ redis = [sensors |-> {}, gates |-> {}]
    /\ history = NoHistory

\* what main leaves alone
mainFrame ==
    UNCHANGED <<now, soilMoistureStates, stateMutex, pc, frame, published,
                received, lastLog, wire, simLast, anyGateOpen, gateCommanded,
                testerPc, redis, history>>

\* initializeGateStates()
mainInitialize ==
    /\ startup.phase = "start"
    /\ gateStates' = initializeGateStates
    /\ startup' = [startup EXCEPT !.phase = "initialized"]
    /\ mainFrame

\* client = connectMQTT(): log.Fatalf when the connection fails
mainConnect ==
    /\ startup.phase = "initialized"
    /\ \E failed \in BOOLEAN :
          startup' = [startup EXCEPT
                         !.phase = IF failed THEN "fatal" ELSE "connected"]
    /\ UNCHANGED gateStates
    /\ mainFrame

\* one turn of the loop over the topics: client.Subscribe(topic, 0, nil),
\* log.Fatalf when it fails; after the last one the processor is running
mainSubscribe ==
    /\ startup.phase = "connected"
    /\ \E failed \in BOOLEAN :
          startup' =
              IF failed THEN [startup EXCEPT !.phase = "fatal"]
              ELSE [startup EXCEPT
                       !.subscribed = @ + 1,
                       !.phase = IF startup.subscribed + 1 = Cardinality(EdgeSubscriptions)
                                 THEN "running" ELSE "connected"]
    /\ UNCHANGED gateStates
    /\ mainFrame

NextStartup ==
    \/ Tick
    \/ mainInitialize
    \/ mainConnect
    \/ mainSubscribe

SpecStartup == InitStartup /\ [][NextStartup]_vars

(***************************************************************************)
(* The startup of the configuration as written together with the handlers:  *)
(* the broker hands readings to messageHandler once it has taken a          *)
(* SUBSCRIBE of the client, which main sends after connectMQTT has          *)
(* returned.  The readings are the dry ones of the sensors of gate 1.       *)
(***************************************************************************)
\* variant: readings reach the handlers whatever main has done
DeliveringAlways(phase) == TRUE

\* the positions of main at which the broker may hold a subscription of the
\* client: in and after the loop over the topics
Delivering(phase) == phase \in {"connected", "running"}

InitStartupAsWritten ==
    /\ InitStartup
    /\ startup.config = Configuration

NextStartupDelivery ==
    \/ Tick
    \/ mainInitialize
    \/ mainConnect
    \/ mainSubscribe
    \/ \E h \in Handlers :
        \/ Delivering(startup.phase) /\ deliver(h, DryGate1Payloads)
        \/ evaluateLock(h)
        \/ evaluateDecide(h)
        \/ sendGateCommand(h)
        \/ tokenWait(h)
        \/ setGateState(h)
        \/ evaluateUnlock(h)

SpecStartupDelivery == InitStartupAsWritten /\ [][NextStartupDelivery]_vars

(***************************************************************************)
(* The history of a sensor in the cloud server: the Redis list              *)
(* sensor:<id>:history, to which storeSensorHistory pushes with a pipeline  *)
(* of LPUSH and LTRIM.  The pipeline is not a transaction: the commands of  *)
(* another call may be served between the two.  An entry is the text        *)
(* {"value":V,"timestamp":T}; the readings stored here carry the number of  *)
(* the push as their timestamp and a value that %.2f prints in full.        *)
(***************************************************************************)
\* the last index LTRIM keeps: pipe.LTrim(ctx, key, 0, 999)
HistoryTrimStop == 999

\* the value of the readings stored
HistoryValue == 25

\* fmt.Sprintf(`{"value":%.2f,"timestamp":%d}`, value, timestamp)
HistoryEntry(value, timestamp) == [value |-> value, timestamp |-> timestamp]

\* LPUSH: the element becomes the head of the list
LPush(list, data) == <<data>> \o list

\* the elements of a list from index start to index stop, both counted from
\* 0 and both included, as Redis reads the indexes of LRANGE and LTRIM: a
\* negative index counts from the end of the list (-1 is the last element),
\* an index past the end stands for the end, and the range is empty when
\* start lies after stop or after the end
ListRange(list, start, stop) ==
    LET len == Len(list)
        from == IF start < 0
                THEN (IF len + start < 0 THEN 0 ELSE len + start)
                ELSE start
        to == IF stop < 0 THEN len + stop
              ELSE IF stop >= len THEN len - 1 ELSE stop
    IN  IF from > to \/ from >= len THEN <<>>
        ELSE SubSeq(list, from + 1, to + 1)

\* variant: LTRIM that keeps one element more
LTrimOneMore(list, start, stop) == ListRange(list, start, stop + 1)

\* LTRIM: the list becomes the range start..stop of itself
LTrim(list, start, stop) == ListRange(list, start, stop)

\* LRANGE: the range start..stop of the list
LRange(list, start, stop) == ListRange(list, start, stop)

\* the number of LPUSHes served so far: the timestamp of the newest entry
Pushes == IF history.list = <<>> THEN 0 ELSE history.list[1].timestamp

\* what the history code leaves alone
historyFrame ==
    UNCHANGED <<now, gateStates, soilMoistureStates, stateMutex, pc, frame,
                published, received, lastLog, wire, simLast, anyGateOpen,
                gateCommanded, testerPc, redis, startup>>

\* storeSensorHistory of call c up to the LPUSH of its pipeline
storeSensorHistoryPush(c) ==
    /\ history.calls[c] = "idle"
    /\ Pushes < MaxPushes
    /\ history' = [history EXCEPT
            !.list = LPush(@, HistoryEntry(HistoryValue, Pushes + 1)),
            !.calls[c] = "trim"]
    /\ historyFrame

\* the LTRIM of the pipeline of call c; storeSensorHistory returns
storeSensorHistoryTrim(c) ==
    /\ history.calls[c] = "trim"
    /\ history' = [history EXCEPT
            !.list = LTrim(@, 0, HistoryTrimStop),
            !.calls[c] = "idle"]
    /\ historyFrame

NextHistory ==
    \E c \in HistoryCallers :
        \/ storeSensorHistoryPush(c)
        \/ storeSensorHistoryTrim(c)

SpecHistory == Init /\ [][NextHistory]_vars

(***************************************************************************)
(* GET /api/sensors/:id/history on a history list of any length up to       *)
(* MaxStored, for the values of the limit query parameter below.            *)
(***************************************************************************)
\* the limit parameter of the request: "" when the query has none
LimitQueries == {"", "0", "5", "100", "150", "-1", "abc"}

\* c.Query(key, defaultValue): the default when the query has no value
Query(value, defaultValue) == IF value = "" THEN defaultValue ELSE value

\* strconv.Atoi with its error dropped: 0 for text that is not a number
Atoi(text) ==
    CASE text = "0" -> 0 [] text = "5" -> 5 [] text = "100" -> 100
      [] text = "150" -> 150 [] text = "-1" -> -1
      [] OTHER -> 0

\* a history list as storeSensorHistory leaves it after n pushes
StoredHistory(n) ==
    [i \in 1..n |-> HistoryEntry(HistoryValue, n - i + 1)]

InitHistoryAPI ==
    /\ \E n \in 0..MaxStored : history = [NoHistory EXCEPT !.list = StoredHistory(n)]
    /\ startup = Running(Configuration)
    /\ now = 0
    /\ gateStates = initializeGateStates
    /\ soilMoistureStates = <<>>
    /\ stateMutex = 0
    /\ pc = [h \in Handlers |-> "idle"]
    /\ frame = [h \in Handlers |-> NoFrame]
    /\ published = [g \in Gates |-> <<>>]
    /\ received = 0
    /\ lastLog = ""
    /\ wire = {}
    /\ simLast = <<>>
    /\ anyGateOpen = FALSE
    /\ gateCommanded = [g \in CommandedGates |-> ""]
    /\ testerPc = 0
    /\ redis = [sensors |-> {}, gates |-> {}]

\* RedisClient.getSensorHistory: LRANGE key 0 count-1
redisGetSensorHistory(list, count) == LRange(list, 0, count - 1)

\* APIHandlers.getSensorHistory for one request; LRANGE does not fail here
getSensorHistory ==
    /\ \E query \in LimitQueries :
          LET limit == Atoi(Query(query, "100"))
              found == redisGetSensorHistory(history.list, limit)
          IN  history' = [history EXCEPT
                  !.response = [query |-> query, history |-> found,
                                count |-> Len(found)]]
    /\ historyFrame

NextHistoryAPI == getSensorHistory

SpecHistoryAPI == InitHistoryAPI /\ [][NextHistoryAPI]_vars

(***************************************************************************)
(* Vocabulary of the properties.                                            *)
(***************************************************************************)
\* positions of evaluateIrrigationNeeds between the cooldown check and the
\* write of the gate state
BetweenCheckAndWrite ==
    {"checkCooldown", "sendGateCommand", "tokenWait", "setGateState"}

\* positions at which a command has been decided and not yet recorded
Emitting == {"sendGateCommand", "tokenWait", "setGateState"}

\* handler h takes a step
Steps(h) == pc'[h] # pc[h] \/ frame'[h] # frame[h]

\* the gate record handler h works on
GateOf(h) == gateStates[frame[h].gateID]

\* nothing of any gate's state or command topic changes
GatesUntouched == gateStates' = gateStates /\ published' = published

\* exactly one command, with the given action, is added for gate g and
\* nothing for any other gate
EmitsOne(g, action) ==
    /\ Len(published'[g]) = Len(published[g]) + 1
    /\ SubSeq(published'[g], 1, Len(published[g])) = published[g]
    /\ published'[g][Len(published'[g])].command = action
    /\ published'[g][Len(published'[g])].gate_id = g
    /\ \A g2 \in Gates \ {g} : published'[g2] = published[g2]

(***************************************************************************)
(* C1  Debounce: any two commands emitted for the same gate are at least    *)
(* commandCooldown apart, so no window of that length holds two of them.    *)
(***************************************************************************)
Debounce ==
    \A g \in Gates : \A i \in 1..Len(published[g]) : \A j \in 1..Len(published[g]) :
        i < j => published[g][j].timestamp - published[g][i].timestamp >= commandCooldown

DebounceWitness ==
    \E g \in Gates : Len(published[g]) >= 2

(***************************************************************************)
(* C2  Hysteresis alternation: the commands of a gate are OPEN, CLOSE,      *)
(* OPEN, ... starting with OPEN.                                            *)
(***************************************************************************)
Alternation ==
    \A g \in Gates : \A i \in 1..Len(published[g]) :
        published[g][i].command = IF i % 2 = 1 THEN "OPEN" ELSE "CLOSE"

AlternationWitness ==
    \E g \in Gates : Len(published[g]) >= 3

(***************************************************************************)
(* C3  Concurrency safety: readings for one gate that each call for OPEN,   *)
(* handled concurrently, yield exactly one command: never more than one,    *)
(* and one once a reading has been handled to the end.                      *)
(***************************************************************************)
ConcurrencySafety ==
    /\ Len(published[1]) <= 1
    /\ \A h \in Handlers :
          (pc[h] = "unlock" \/ (pc[h] = "idle" /\ received > 0 /\ stateMutex = 0
                                  /\ \A k \in Handlers : pc[k] = "idle"))
              => Len(published[1]) = 1

\* one handler has emitted and written while another, with a reading that
\* alone would have opened the gate, waits for the lock
ConcurrencySafetyWitness ==
    \E h \in Handlers : \E k \in Handlers \ {h} :
        /\ pc[h] = "unlock" /\ frame[h].command = "OPEN"
        /\ pc[k] = "evaluate"
        /\ frame[k].moistureLevel < dryThreshold
        /\ sensorToGateMap[frame[k].sensorID] = frame[h].gateID

(***************************************************************************)
(* C4  Atomic critical section: at most one handler is between its          *)
(* cooldown check and its state write, and it is the holder of stateMutex.  *)
(***************************************************************************)
AtomicCriticalSection ==
    /\ Cardinality({h \in Handlers : pc[h] \in BetweenCheckAndWrite}) <= 1
    /\ \A h \in Handlers : pc[h] \in BetweenCheckAndWrite => stateMutex = h

\* a handler is about to write the gate state while another has a reading
\* for the same gate and waits for the lock
AtomicCriticalSectionWitness ==
    \E h \in Handlers : \E k \in Handlers \ {h} :
        /\ pc[h] = "setGateState"
        /\ pc[k] = "evaluate"
        /\ frame[k].sensorID \in DOMAIN sensorToGateMap
        /\ sensorToGateMap[frame[k].sensorID] = frame[h].gateID

(***************************************************************************)
(* C5  Cooldown gate: a reading checked less than commandCooldown after     *)
(* the gate's LastCommand sends nothing and changes neither IsOpen nor      *)
(* LastCommand, whatever its value and the gate's state.                    *)
(***************************************************************************)
CooldownGate ==
    /\ [](\A h \in Handlers :
            pc[h] \in Emitting => frame[h].timeSinceLastCommand >= commandCooldown)
    /\ [][\A h \in Handlers :
            /\ (/\ pc[h] = "checkCooldown"
                /\ Steps(h)
                /\ Since(GateOf(h).LastCommand, now) < commandCooldown)
                  => /\ pc'[h] = "unlock"
                     /\ frame'[h].command = "NONE"
                     /\ GatesUntouched
            /\ (/\ pc[h] = "unlock"
                /\ Steps(h)
                /\ frame[h].timeSinceLastCommand < commandCooldown)
                  => GatesUntouched]_vars

\* a wet reading for an open gate has been turned away by the cooldown
CooldownGateWitness ==
    \E h \in Handlers :
        /\ pc[h] = "unlock"
        /\ frame[h].timeSinceLastCommand < commandCooldown
        /\ frame[h].moistureLevel > wetThreshold
        /\ GateOf(h).IsOpen

(***************************************************************************)
(* C6  OPEN transition: a reading below dryThreshold, checked when the      *)
(* gate is closed and out of cooldown, sends exactly one OPEN command for   *)
(* the gate and leaves the gate open.                                       *)
(***************************************************************************)
OpenTransition ==
    /\ [](\A h \in Handlers :
            (pc[h] = "unlock" /\ frame[h].command = "OPEN") => GateOf(h).IsOpen)
    /\ [][\A h \in Handlers :
            /\ (/\ pc[h] = "checkCooldown"
                /\ Steps(h)
                /\ frame[h].moistureLevel < dryThreshold
                /\ ~GateOf(h).IsOpen
                /\ Since(GateOf(h).LastCommand, now) >= commandCooldown)
                  => /\ pc'[h] = "sendGateCommand"
                     /\ frame'[h].command = "OPEN"
                     /\ GatesUntouched
            /\ (pc[h] = "sendGateCommand" /\ frame[h].command = "OPEN" /\ Steps(h))
                  => /\ EmitsOne(frame[h].gateID, "OPEN")
                     /\ pc'[h] = "tokenWait"
            /\ (pc[h] = "tokenWait" /\ frame[h].command = "OPEN" /\ Steps(h))
                  => /\ published' = published
                     /\ pc'[h] = "setGateState"
            /\ (pc[h] = "setGateState" /\ frame[h].command = "OPEN" /\ Steps(h))
                  => /\ published' = published
                     /\ gateStates'[frame[h].gateID].IsOpen
                     /\ pc'[h] = "unlock"
            /\ (pc[h] = "unlock" /\ frame[h].command = "OPEN" /\ Steps(h))
                  => GatesUntouched]_vars

OpenTransitionWitness ==
    \E h \in Handlers :
        /\ pc[h] = "unlock"
        /\ frame[h].command = "OPEN"
        /\ frame[h].moistureLevel < dryThreshold
        /\ GateOf(h).IsOpen
        /\ Len(published[frame[h].gateID]) = 1

(***************************************************************************)
(* C7  CLOSE transition: a reading above wetThreshold, checked when the     *)
(* gate is open and out of cooldown, sends exactly one CLOSE command for    *)
(* the gate and leaves the gate closed.                                     *)
(***************************************************************************)
CloseTransition ==
    /\ [](\A h \in Handlers :
            (pc[h] = "unlock" /\ frame[h].command = "CLOSE") => ~GateOf(h).IsOpen)
    /\ [][\A h \in Handlers :
            /\ (/\ pc[h] = "checkCooldown"
                /\ Steps(h)
                /\ frame[h].moistureLevel > wetThreshold
                /\ GateOf(h).IsOpen
                /\ Since(GateOf(h).LastCommand, now) >= commandCooldown)
                  => /\ pc'[h] = "sendGateCommand"
                     /\ frame'[h].command = "CLOSE"
                     /\ GatesUntouched
            /\ (pc[h] = "sendGateCommand" /\ frame[h].command = "CLOSE" /\ Steps(h))
                  => /\ EmitsOne(frame[h].gateID, "CLOSE")
                     /\ pc'[h] = "tokenWait"
            /\ (pc[h] = "tokenWait" /\ frame[h].command = "CLOSE" /\ Steps(h))
                  => /\ published' = published
                     /\ pc'[h] = "setGateState"
            /\ (pc[h] = "setGateState" /\ frame[h].command = "CLOSE" /\ Steps(h))
                  => /\ published' = published
                     /\ ~gateStates'[frame[h].gateID].IsOpen
                     /\ pc'[h] = "unlock"
            /\ (pc[h] = "unlock" /\ frame[h].command = "CLOSE" /\ Steps(h))
                  => GatesUntouched]_vars

CloseTransitionWitness ==
    \E h \in Handlers :
        /\ pc[h] = "unlock"
        /\ frame[h].command = "CLOSE"
        /\ frame[h].moistureLevel > wetThreshold
        /\ ~GateOf(h).IsOpen
        /\ Len(published[frame[h].gateID]) = 2

(***************************************************************************)
(* C8  As claimed: after a command the gate's LastCommand is the instant    *)
(* read for the cooldown check of that reading.                             *)
(***************************************************************************)
LastCommandIsCheckInstant ==
    \A h \in Handlers :
        (pc[h] = "unlock" /\ frame[h].command # "NONE")
            => GateOf(h).LastCommand = frame[h].checkedAt

(***************************************************************************)
(* C8  As amended: after a command the gate's LastCommand is the clock      *)
(* read when the gate state is written, after sendGateCommand has           *)
(* returned; it is not before the instant of the cooldown check nor before  *)
(* the timestamp of the command.                                            *)
(***************************************************************************)
LastCommandIsWriteInstant ==
    /\ [](\A h \in Handlers :
            (pc[h] = "unlock" /\ frame[h].command # "NONE")
                => LET g == frame[h].gateID
                   IN  /\ GateOf(h).LastCommand >= frame[h].checkedAt
                       /\ GateOf(h).LastCommand
                            >= published[g][Len(published[g])].timestamp
                       /\ GateOf(h).LastCommand <= now)
    /\ [][\A h \in Handlers :
            (pc[h] = "setGateState" /\ Steps(h))
                => gateStates'[frame[h].gateID].LastCommand = now]_vars

\* the publish took time: the gate state was written after the check
LastCommandIsWriteInstantWitness ==
    \E h \in Handlers :
        /\ pc[h] = "unlock"
        /\ frame[h].command # "NONE"
        /\ GateOf(h).LastCommand > frame[h].checkedAt

(***************************************************************************)
(* C9  Dead-zone idempotence: a reading with dryThreshold <= value <=       *)
(* wetThreshold never sends a command and never changes IsOpen or           *)
(* LastCommand of any gate.                                                 *)
(***************************************************************************)
InDeadZone(v) == dryThreshold <= v /\ v <= wetThreshold

DeadZone ==
    /\ [](\A h \in Handlers :
            (pc[h] # "idle" /\ InDeadZone(frame[h].moistureLevel))
                => pc[h] \notin Emitting /\ frame[h].command = "NONE")
    /\ [][\A h \in Handlers :
            (/\ Steps(h)
             /\ \/ pc[h] # "idle" /\ InDeadZone(frame[h].moistureLevel)
                \/ pc[h] = "idle" /\ InDeadZone(frame'[h].moistureLevel))
                => GatesUntouched]_vars

\* a reading inside the dead zone was decided on out of cooldown, for an
\* open gate
DeadZoneWitness ==
    \E h \in Handlers :
        /\ pc[h] = "unlock"
        /\ InDeadZone(frame[h].moistureLevel)
        /\ frame[h].timeSinceLastCommand >= commandCooldown
        /\ GateOf(h).IsOpen

(***************************************************************************)
(* C10  Threshold tie-break: a reading equal to dryThreshold never          *)
(* triggers OPEN and a reading equal to wetThreshold never triggers CLOSE.  *)
(***************************************************************************)
TieBreak ==
    /\ \A h \in Handlers :
          /\ frame[h].moistureLevel = dryThreshold => frame[h].command # "OPEN"
          /\ frame[h].moistureLevel = wetThreshold => frame[h].command # "CLOSE"
    /\ \A g \in Gates : \A i \in 1..Len(published[g]) :
          /\ published[g][i].command = "OPEN"
                => published[g][i].reason.moisture # dryThreshold
          /\ published[g][i].command = "CLOSE"
                => published[g][i].reason.moisture # wetThreshold

\* a reading equal to wetThreshold was decided on out of cooldown, for an
\* open gate, and the gate stays open
TieBreakWitness ==
    \E h \in Handlers :
        /\ pc[h] = "unlock"
        /\ frame[h].moistureLevel = wetThreshold
        /\ frame[h].timeSinceLastCommand >= commandCooldown
        /\ GateOf(h).IsOpen

(***************************************************************************)
(* C11  Current-state guard: out of cooldown, a reading below dryThreshold  *)
(* for a gate that is open, or above wetThreshold for a gate that is        *)
(* closed, sends no command and leaves IsOpen and LastCommand unchanged.    *)
(***************************************************************************)
AsksForCurrentState(moistureLevel, isOpen) ==
    \/ moistureLevel < dryThreshold /\ isOpen
    \/ moistureLevel > wetThreshold /\ ~isOpen

CurrentStateGuard ==
    /\ [](\A h \in Handlers :
            (pc[h] \in {"sendGateCommand", "tokenWait"})
                => ~AsksForCurrentState(frame[h].moistureLevel, GateOf(h).IsOpen))
    /\ [][\A h \in Handlers :
            /\ (/\ pc[h] = "checkCooldown"
                /\ Steps(h)
                /\ Since(GateOf(h).LastCommand, now) >= commandCooldown
                /\ AsksForCurrentState(frame[h].moistureLevel, GateOf(h).IsOpen))
                  => /\ pc'[h] = "unlock"
                     /\ frame'[h].command = "NONE"
                     /\ GatesUntouched
            /\ (pc[h] = "unlock" /\ frame[h].command = "NONE" /\ Steps(h))
                  => GatesUntouched]_vars

\* a dry reading for an open gate was decided on out of cooldown
CurrentStateGuardWitness ==
    \E h \in Handlers :
        /\ pc[h] = "unlock"
        /\ frame[h].command = "NONE"
        /\ frame[h].moistureLevel < dryThreshold
        /\ frame[h].timeSinceLastCommand >= commandCooldown
        /\ GateOf(h).IsOpen

(***************************************************************************)
(* C12  Routing independence: a reading of a sensor that is not in          *)
(* sensorToGateMap never changes IsOpen or LastCommand of any gate, sends   *)
(* no command, and its handler returns without taking the state lock for    *)
(* a gate.                                                                  *)
(***************************************************************************)
RoutingIndependence ==
    /\ [](\A h \in Handlers :
            (pc[h] # "idle" /\ frame[h].sensorID \notin DOMAIN sensorToGateMap)
                => pc[h] = "evaluate" /\ frame[h].gateID = 0 /\ stateMutex # h)
    /\ [][\A h \in Handlers :
            /\ (/\ pc[h] = "idle"
                /\ Steps(h)
                /\ frame'[h].sensorID \notin DOMAIN sensorToGateMap)
                  => GatesUntouched
            /\ (/\ pc[h] # "idle"
                /\ Steps(h)
                /\ frame[h].sensorID \notin DOMAIN sensorToGateMap)
                  => /\ GatesUntouched
                     /\ pc'[h] = "idle"
                     /\ stateMutex' = stateMutex]_vars

\* the reading of an unmapped sensor is being evaluated while gate 1 is open
RoutingIndependenceWitness ==
    \E h \in Handlers :
        /\ pc[h] = "evaluate"
        /\ frame[h].sensorID \notin DOMAIN sensorToGateMap
        /\ gateStates[1].IsOpen

(***************************************************************************)
(* C13  LastCommand changes if and only if a command is emitted: the        *)
(* handling of a reading changes the gate's LastCommand exactly when it     *)
(* has sent a command for that gate; LastCommand is written only by the     *)
(* handler that has just sent one, and commands are sent only by the        *)
(* holder of the lock, which then writes LastCommand before it unlocks.     *)
(***************************************************************************)
\* gate.LastCommand as the cooldown check of handler h read it
PriorLastCommand(h) ==
    IF frame[h].timeSinceLastCommand = maxDuration THEN ZeroTime
    ELSE frame[h].checkedAt - frame[h].timeSinceLastCommand

\* a command was sent for the gate of handler h after the LastCommand that
\* its cooldown check read (the commands sent before are not later than it)
EmittedBy(h) ==
    LET sent == published[frame[h].gateID]
    IN  Len(sent) > 0 /\ sent[Len(sent)].timestamp > PriorLastCommand(h)

LastCommandIffCommand ==
    /\ [](\A h \in Handlers :
            pc[h] = "unlock"
                => (GateOf(h).LastCommand # PriorLastCommand(h) <=> EmittedBy(h)))
    /\ [](stateMutex = 0
            => \A g \in Gates :
                  gateStates[g].LastCommand = ZeroTime <=> published[g] = <<>>)
    /\ [][\A g \in Gates :
            /\ gateStates'[g].LastCommand # gateStates[g].LastCommand
                  => \E h \in Handlers :
                        /\ pc[h] = "setGateState" /\ pc'[h] = "unlock"
                        /\ frame[h].gateID = g
                        /\ EmittedBy(h)
                        /\ published' = published
            /\ published'[g] # published[g]
                  => \E h \in Handlers :
                        /\ pc[h] = "sendGateCommand" /\ pc'[h] = "tokenWait"
                        /\ frame[h].gateID = g
                        /\ stateMutex = h
                        /\ EmitsOne(g, frame[h].command)]_vars

\* a second command was sent for a gate and its LastCommand moved again
LastCommandIffCommandWitness ==
    \E h \in Handlers :
        /\ pc[h] = "unlock"
        /\ EmittedBy(h)
        /\ PriorLastCommand(h) # ZeroTime
        /\ GateOf(h).LastCommand > PriorLastCommand(h)

(***************************************************************************)
(* C14  Only soil-moisture readings drive the gates: a message of type      *)
(* water-flow, soil-temperature or any other type is printed and dropped;   *)
(* it starts no evaluation, stores nothing, changes no gate's IsOpen or     *)
(* LastCommand and sends no command.                                        *)
(***************************************************************************)
OtherTypes == {d.Type : d \in OtherData}

OnlySoilMoistureDrives ==
    [][/\ \A h \in Handlers :
            (pc[h] = "idle" /\ pc'[h] # "idle")
                => lastLog' = "soil-moisture-sensors"
       /\ (lastLog' # lastLog /\ lastLog' \in OtherTypes)
            => /\ GatesUntouched
               /\ UNCHANGED <<pc, frame, stateMutex, soilMoistureStates, received>>
      ]_vars

\* a water-flow message was handled last, while gate 1 was open
OnlySoilMoistureDrivesWitness ==
    /\ lastLog = "water-flow-sensors"
    /\ gateStates[1].IsOpen
    /\ \A h \in Handlers : pc[h] = "idle"

(***************************************************************************)
(* C15  Initial state: a gate for which no command was ever sent is closed  *)
(* with LastCommand at the zero time, and a reading below dryThreshold for  *)
(* such a gate is never turned away by the cooldown check, however soon     *)
(* after the start it is checked: it is decided as OPEN.                    *)
(***************************************************************************)
FirstReadingNotBlocked ==
    /\ \A g \in Gates :
          (published[g] = <<>>)
              => ~gateStates[g].IsOpen /\ gateStates[g].LastCommand = ZeroTime
    /\ \A h \in Handlers :
          (/\ pc[h] \in {"sendGateCommand", "tokenWait", "setGateState", "unlock"}
           /\ frame[h].moistureLevel < dryThreshold
           /\ PriorLastCommand(h) = ZeroTime)
              => /\ frame[h].timeSinceLastCommand >= commandCooldown
                 /\ frame[h].command = "OPEN"

\* the first dry reading of a gate, checked at the very start, opened it
FirstReadingNotBlockedWitness ==
    \E h \in Handlers :
        /\ pc[h] = "unlock"
        /\ frame[h].checkedAt = 0
        /\ frame[h].command = "OPEN"
        /\ PriorLastCommand(h) = ZeroTime
        /\ now = 0

(***************************************************************************)
(* C16  Every gate ID that sensorToGateMap maps a sensor to has a record in *)
(* gateStates, the gate a handler looked up for its sensor has a record,    *)
(* and the key set of gateStates is the one initializeGateStates built.     *)
(***************************************************************************)
MappedGatesHaveState ==
    /\ \A s \in DOMAIN sensorToGateMap : sensorToGateMap[s] \in DOMAIN gateStates
    /\ \A h \in Handlers :
          (pc[h] \in {"checkCooldown", "sendGateCommand", "tokenWait",
                      "setGateState", "unlock"})
              => /\ frame[h].gateID = sensorToGateMap[frame[h].sensorID]
                 /\ frame[h].gateID \in DOMAIN gateStates
                 /\ gateStates[frame[h].gateID].GateID = frame[h].gateID
    /\ DOMAIN gateStates = DOMAIN initializeGateStates
    /\ DOMAIN gateStates = 1..22

\* a handler holds the record of gate 2, looked up for sensor 9020, after
\* gate 1 has already been commanded
MappedGatesHaveStateWitness ==
    \E h \in Handlers :
        /\ pc[h] = "checkCooldown"
        /\ frame[h].sensorID = 9020
        /\ frame[h].gateID = 2
        /\ gateStates[1].IsOpen

(***************************************************************************)
(* C17  Publishing a command does not stall other zones: while one handler  *)
(* waits for the transport to complete the publish of a command for one     *)
(* gate, a handler holding a reading of a sensor mapped to a different gate *)
(* can take stateMutex and decide.                                          *)
(***************************************************************************)
WaitsOtherGate(h, k) ==
    /\ pc[h] = "tokenWait"
    /\ pc[k] = "evaluate"
    /\ LookupGate(frame[k].sensorID).exists
    /\ LookupGate(frame[k].sensorID).gateID # frame[h].gateID

PublishDoesNotStall ==
    \A h, k \in Handlers :
        WaitsOtherGate(h, k) => ENABLED evaluateLock(k)

(***************************************************************************)
(* The control loop under the scheduling the runtime gives: a handler that  *)
(* can run does run, and a handler waiting on stateMutex gets it when it is *)
(* released again and again.  The completion of token.Wait() rests with the *)
(* transport, and the arrival of readings with the sensors: neither is      *)
(* promised.                                                                *)
(***************************************************************************)
Fairness ==
    \A h \in Handlers :
        /\ WF_vars(evaluateUnmapped(h))
        /\ SF_vars(evaluateLock(h))
        /\ WF_vars(evaluateDecide(h))
        /\ WF_vars(sendGateCommand(h))
        /\ WF_vars(setGateState(h))
        /\ WF_vars(evaluateUnlock(h))

SpecLive == Init /\ [][Next]_vars /\ Fairness

(***************************************************************************)
(* C18  No operation blocks indefinitely: every invocation of the message   *)
(* handler eventually completes, and stateMutex, once taken, is eventually  *)
(* released.                                                                *)
(***************************************************************************)
HandlerCompletes ==
    /\ \A h \in Handlers : (pc[h] # "idle") ~> (pc[h] = "idle")
    /\ (~LockFree(stateMutex)) ~> LockFree(stateMutex)

(***************************************************************************)
(* C19  Optimistic state update: when the publish of a command has failed,  *)
(* the handler still goes on to write the gate state, IsOpen and            *)
(* LastCommand take the values of the decided transition, and the handler   *)
(* then releases stateMutex and returns, so that the readings that follow   *)
(* can be handled.                                                          *)
(***************************************************************************)
FailedPublish(h) ==
    /\ frame[h].command # "NONE"
    /\ frame[h].tokenError

OptimisticUpdate ==
    /\ [](\A h \in Handlers :
            (pc[h] = "unlock" /\ FailedPublish(h))
                => /\ gateStates[frame[h].gateID].IsOpen = (frame[h].command = "OPEN")
                   /\ gateStates[frame[h].gateID].LastCommand >= frame[h].checkedAt
                   /\ gateStates[frame[h].gateID].LastCommand > PriorLastCommand(h))
    /\ [][\A h \in Handlers :
            /\ (pc[h] = "tokenWait" /\ pc'[h] # "tokenWait")
                   => pc'[h] = "setGateState"
            /\ (FailedPublish(h) /\ pc[h] = "unlock" /\ pc'[h] # "unlock")
                   => /\ pc'[h] = "idle"
                      /\ LockFree(stateMutex')
                      /\ GatesUntouched
         ]_vars

\* the publish of OPEN for gate 1 failed, the gate is recorded open, and a
\* reading for gate 2 waits to be handled
OptimisticUpdateWitness ==
    \E h, k \in Handlers :
        /\ pc[h] = "unlock"
        /\ frame[h].command = "OPEN"
        /\ frame[h].tokenError
        /\ gateStates[1].IsOpen
        /\ pc[k] = "evaluate"
        /\ frame[k].sensorID = 9020

(***************************************************************************)
(* C20  A publish failure of a gate command is reported: what               *)
(* sendGateCommand leaves behind after a failed publish (the line it        *)
(* prints) differs from what it leaves behind after a successful one.       *)
(***************************************************************************)
PublishFailureReported ==
    \A h \in Handlers :
        (pc[h] \in {"setGateState", "unlock"} /\ FailedPublish(h))
            => frame[h].printed # CommandLine(FALSE)

(***************************************************************************)
(* C21  A payload that json.Unmarshal rejects is dropped: the step that     *)
(* handles it changes no gate's IsOpen or LastCommand, publishes nothing,   *)
(* stores no moisture value, leaves stateMutex as it is and the handler     *)
(* idle; and a handler that has just dropped one accepts the reading that   *)
(* follows.                                                                 *)
(***************************************************************************)
MalformedPayloads == {p \in DispatchPayloads : ~p.wellFormed}

DryReading9001 ==
    [wellFormed |-> TRUE,
     data |-> [SensorID |-> 9001, Type |-> "soil-moisture-sensors",
               Value |-> 25, Timestamp |-> 0]]

MalformedDropped ==
    /\ [][\A h \in Handlers :
            deliverLogged(h, MalformedPayloads)
                => /\ lastLog' = "parse-error"
                   /\ GatesUntouched
                   /\ UNCHANGED <<now, pc, frame, stateMutex, soilMoistureStates,
                                  received>>
         ]_vars
    /\ [](\A h \in Handlers :
            (/\ lastLog = "parse-error"
             /\ pc[h] = "idle"
             /\ LockFree(stateMutex)
             /\ received < MaxReadings)
                => ENABLED deliverLogged(h, {DryReading9001}))

\* a malformed payload was handled while another handler was publishing
\* under the lock, after gate 1 had been opened and closed
MalformedDroppedWitness ==
    \E h, k \in Handlers :
        /\ lastLog = "parse-error"
        /\ pc[h] = "idle"
        /\ pc[k] = "tokenWait"
        /\ stateMutex = k
        /\ Len(published[1]) = 2

(***************************************************************************)
(* C22  Zone independence: a step changes IsOpen, LastCommand or the        *)
(* command topic of a gate only when it is a step of a handler whose        *)
(* reading is routed to that gate; and the cooldown test of a reading       *)
(* measures the time since the last command of its own gate only, so a      *)
(* reading of a gate that was never commanded is never held back by the     *)
(* cooldown, whatever was sent to other gates.                              *)
(***************************************************************************)
ZoneIndependence ==
    /\ [][\A g \in Gates :
            (gateStates'[g] # gateStates[g] \/ published'[g] # published[g])
                => \E h \in Handlers :
                      /\ Steps(h)
                      /\ stateMutex = h
                      /\ frame[h].gateID = g
                      /\ sensorToGateMap[frame[h].sensorID] = g
         ]_vars
    /\ [](\A h \in Handlers :
            pc[h] \in Emitting \cup {"unlock"}
                => /\ published[frame[h].gateID] = <<>>
                        => frame[h].timeSinceLastCommand = maxDuration
                   /\ pc[h] \in Emitting
                        => frame[h].timeSinceLastCommand
                              = Since(GateOf(h).LastCommand, frame[h].checkedAt))

\* OPEN is decided for gate 2 at the very second gate 1 was commanded
ZoneIndependenceWitness ==
    \E h \in Handlers :
        /\ pc[h] = "sendGateCommand"
        /\ frame[h].gateID = 2
        /\ frame[h].command = "OPEN"
        /\ gateStates[1].LastCommand = frame[h].checkedAt
        /\ gateStates[1].IsOpen

(***************************************************************************)
(* C23  (as stated)  Processing a reading mutates no shared state other     *)
(* than the state record of the gate the reading is routed to:              *)
(* soilMoistureStates never changes, and a gate record changes only in a    *)
(* step of the handler working on that gate.                                *)
(***************************************************************************)
OnlyGateStateMutated ==
    [][/\ soilMoistureStates' = soilMoistureStates
       /\ \A g \in Gates :
            gateStates'[g] # gateStates[g]
                => \E h \in Handlers : pc[h] = "setGateState" /\ frame[h].gateID = g
      ]_vars

(***************************************************************************)
(* C23  (amended)  Processing a soil-moisture reading mutates two shared    *)
(* maps, both under stateMutex: handleSoilMoisture stores the value of      *)
(* every reading, mapped or not, under its sensor in soilMoistureStates,    *)
(* leaving the other entries as they are, and evaluateIrrigationNeeds       *)
(* assigns the record of the gate the reading is routed to, and no other.   *)
(***************************************************************************)
SharedStateMutated ==
    [][/\ \A h \in Handlers :
            (pc[h] = "idle" /\ pc'[h] = "evaluate")
                => /\ LockFree(stateMutex)
                   /\ frame'[h].sensorID \in DOMAIN soilMoistureStates'
                   /\ soilMoistureStates'[frame'[h].sensorID] = frame'[h].moistureLevel
                   /\ DOMAIN soilMoistureStates'
                         = DOMAIN soilMoistureStates \cup {frame'[h].sensorID}
                   /\ \A s \in DOMAIN soilMoistureStates :
                         s # frame'[h].sensorID
                             => soilMoistureStates'[s] = soilMoistureStates[s]
       /\ soilMoistureStates' # soilMoistureStates
            => \E h \in Handlers : pc[h] = "idle" /\ pc'[h] = "evaluate"
       /\ \A g \in Gates :
            gateStates'[g] # gateStates[g]
                => \E h \in Handlers :
                      /\ pc[h] = "setGateState"
                      /\ stateMutex = h
                      /\ frame[h].gateID = g
      ]_vars

\* the values of a mapped and of an unmapped sensor are stored, and gate 1
\* has been opened
SharedStateMutatedWitness ==
    /\ {9001, 9999} \subseteq DOMAIN soilMoistureStates
    /\ soilMoistureStates[9001] = 25
    /\ gateStates[1].IsOpen

(***************************************************************************)
(* C24  The decision for a reading does not depend on the timestamp the     *)
(* producer supplied: a step in which a handler takes up a reading is the   *)
(* step that handles every message carrying this reading, whatever its      *)
(* Timestamp, so all of them lead from the same state at the same local     *)
(* time to the same state, and with it to the same command and gate state;  *)
(* and the instants kept in a gate record and sent in a command are         *)
(* readings of the local clock.                                             *)
(***************************************************************************)
SameButTimestamp(p, q) ==
    /\ p.wellFormed = q.wellFormed
    /\ p.data.SensorID = q.data.SensorID
    /\ p.data.Type = q.data.Type
    /\ p.data.Value = q.data.Value

IsClockReading(t) == t >= 0 /\ t <= now /\ t % TickStep = 0

TimestampNotTrusted ==
    /\ [][\A h \in Handlers :
            (pc[h] = "idle" /\ pc'[h] # "idle")
                => \E p \in Payloads :
                      /\ ReadingOf(p.data) = frame'[h]
                      /\ \A q \in Payloads :
                            SameButTimestamp(p, q) => deliver(h, {q})
         ]_vars
    /\ [](\A g \in Gates :
            /\ \/ gateStates[g].LastCommand = ZeroTime
               \/ IsClockReading(gateStates[g].LastCommand)
            /\ \A i \in 1..Len(published[g]) :
                  IsClockReading(published[g][i].timestamp))

\* a dry reading of sensor 9001, which exists with two different
\* timestamps, has led to OPEN for gate 1 at a local time that is neither
TimestampNotTrustedWitness ==
    \E h \in Handlers : \E p, q \in Payloads :
        /\ SameButTimestamp(p, q)
        /\ p.data.Timestamp # q.data.Timestamp
        /\ p.data.SensorID = frame[h].sensorID
        /\ p.data.Value = frame[h].moistureLevel
        /\ IsSoilMoisture(p.data.Type)
        /\ pc[h] = "unlock"
        /\ frame[h].command = "OPEN"
        /\ GateOf(h).LastCommand \notin Timestamps

(***************************************************************************)
(* C25  Every reading the simulator publishes goes out on a topic of the    *)
(* form farm/sensors/<sensor-type>/<sensor-id>: the topic of its last       *)
(* publish is the one of the README format, it matches the subscription of  *)
(* the cloud server and, for a reading of a type the edge processor         *)
(* subscribes to, a subscription of the edge processor.                     *)
(***************************************************************************)
SimulatorTopicsDelivered ==
    simLast # <<>>
        => /\ simLast.topic = SensorTopic(simLast.data)
           /\ Subscribed("cloud", simLast.topic)
           /\ IsSoilMoisture(simLast.data.Type)
                 => Subscribed("edge", simLast.topic)

(***************************************************************************)
(* C26  Command round-trip: when the simulator's handleMessage handles a    *)
(* command that the edge processor's sendGateCommand published, it          *)
(* recovers the command's gate ID and its action (OPEN or CLOSE), and       *)
(* reacts to OPEN by marking a gate open and to CLOSE by marking it closed. *)
(***************************************************************************)
FromEdge(m) == m.to = "simulator" /\ "command" \in DOMAIN m.payload

CommandRoundTrip ==
    [][\A m \in wire :
          (FromEdge(m) /\ m \notin wire')
              => /\ DecodeGateCommand(m.payload).GateID = m.payload.gate_id
                 /\ DecodeGateCommand(m.payload).Action = m.payload.command
                 /\ anyGateOpen' = (m.payload.command = "OPEN")
                 /\ gateCommanded'[m.payload.gate_id] = m.payload.command
      ]_vars

(***************************************************************************)
(* The system under the scheduling the runtimes and the broker give: a      *)
(* message routed to a subscriber is handed to its handler, a handler of   *)
(* the edge processor that can run does run, and here the transport         *)
(* completes every publish.  The publishes of the sensors are not promised. *)
(***************************************************************************)
FairnessSystem ==
    /\ WF_vars(handleMessage)
    /\ WF_vars(cloudMessageHandler)
    /\ \A h \in SystemHandlers :
          /\ WF_vars(receive(h))
          /\ SF_vars(evaluateLock(h))
          /\ WF_vars(evaluateDecide(h))
          /\ WF_vars(sendGateCommandRouted(h))
          /\ WF_vars(tokenWait(h))
          /\ WF_vars(setGateState(h))
          /\ WF_vars(evaluateUnlock(h))

SpecSystemLive == Init /\ [][NextSystem]_vars /\ FairnessSystem

(***************************************************************************)
(* C27  Every gate state transition decided by the edge processor is sent   *)
(* to the cloud server: once a command has been published for a gate, a     *)
(* gate status record of that gate is eventually stored by the cloud        *)
(* server's message handler.                                                *)
(***************************************************************************)
TransitionsReachCloud ==
    \A g \in {1, 2} : (published[g] # <<>>) ~> (g \in redis.gates)

(***************************************************************************)
(* C28  Startup refuses an inconsistent configuration: the edge processor   *)
(* subscribes to a topic, and so begins to process readings, only when      *)
(* dryThreshold < wetThreshold and every gate the routing table names has   *)
(* a record in gateStates.                                                  *)
(***************************************************************************)
Consistent(config) ==
    /\ config.dryThreshold < config.wetThreshold
    /\ config.routedGates \subseteq DOMAIN gateStates

AnyGateOpenTracksGates ==
    anyGateOpen <=> (\E g \in CommandedGates : gateCommanded[g] = "OPEN")

(***************************************************************************)
(* C30  Cooldown boundary: the cooldown comparison is strict.  A reading    *)
(* checked exactly commandCooldown after the gate's LastCommand is decided  *)
(* by the thresholds and the gate's state as if there were no cooldown,     *)
(* and a reading that the thresholds would act on is held back only when    *)
(* less than commandCooldown has passed.                                    *)
(***************************************************************************)
CooldownBoundary ==
    [][\A h \in Handlers :
          (pc[h] = "checkCooldown" /\ Steps(h))
              => LET elapsed == Since(GateOf(h).LastCommand, now)
                     byThresholds == Decide(frame[h].moistureLevel, GateOf(h).IsOpen)
                 IN  /\ elapsed = commandCooldown
                          => /\ frame'[h].command = byThresholds
                             /\ byThresholds # "NONE" => pc'[h] = "sendGateCommand"
                     /\ (frame'[h].command = "NONE" /\ byThresholds # "NONE")
                          => elapsed < commandCooldown
      ]_vars

\* CLOSE is being sent for a reading checked exactly commandCooldown after
\* the gate was opened
CooldownBoundaryWitness ==
    \E h \in Handlers :
        /\ pc[h] = "sendGateCommand"
        /\ frame[h].timeSinceLastCommand = commandCooldown
        /\ frame[h].command = "CLOSE"

(***************************************************************************)
(* C31  The sensors of a zone share one state machine and one cooldown      *)
(* timer: a handler that is about to send a command for the reading of a    *)
(* sensor s sends it for the zone sensorToGateMap[s], and every command     *)
(* sent before on that zone's topic, whichever sensor of the zone caused    *)
(* it, is at least commandCooldown older than the handler's check; every    *)
(* command carries the gate_id of the topic it is published on; and a step  *)
(* that publishes adds one command, on the topic of the zone of the sensor  *)
(* that was read, and nothing on the topic of any other zone.               *)
(***************************************************************************)
ZoneOf(h) == sensorToGateMap[frame[h].sensorID]

SharedZoneCooldown ==
    /\ [](\A h \in Handlers :
            pc[h] = "sendGateCommand"
                => /\ frame[h].gateID = ZoneOf(h)
                   /\ \A i \in 1..Len(published[ZoneOf(h)]) :
                         frame[h].checkedAt - published[ZoneOf(h)][i].timestamp
                             >= commandCooldown)
    /\ [](\A g \in Gates : \A i \in 1..Len(published[g]) :
            published[g][i].gate_id = g)
    /\ [][published' # published
            => \E h \in Handlers :
                  /\ pc[h] = "sendGateCommand"
                  /\ EmitsOne(ZoneOf(h), frame[h].command)]_vars

\* the dry reading of sensor 9002 was turned away by the cooldown that the
\* commands caused by sensor 9001, the only one reporting wet values, started
SharedZoneCooldownWitness ==
    \E h \in Handlers :
        /\ pc[h] = "unlock"
        /\ frame[h].sensorID = 9002
        /\ frame[h].moistureLevel < dryThreshold
        /\ frame[h].command = "NONE"
        /\ ~GateOf(h).IsOpen
        /\ Len(published[1]) = 2
        /\ published[1][2].command = "CLOSE"
        /\ frame[h].checkedAt - published[1][2].timestamp < commandCooldown

(***************************************************************************)
(* C32  Whenever no handler holds stateMutex, IsOpen of every gate tells    *)
(* the last command sent for the gate: it is true exactly when that         *)
(* command was OPEN, and false when it was CLOSE or when no command was     *)
(* ever sent for the gate.                                                  *)
(***************************************************************************)
LastEmitted(g) ==
    IF published[g] = <<>> THEN "NONE"
    ELSE published[g][Len(published[g])].command

IsOpenTracksLastCommand ==
    stateMutex = 0
        => \A g \in Gates : gateStates[g].IsOpen <=> LastEmitted(g) = "OPEN"

\* with the lock free, gate 1 is closed after OPEN and CLOSE, gate 2 is open
\* after OPEN, and gate 3 is closed with no command sent
IsOpenTracksLastCommandWitness ==
    /\ stateMutex = 0
    /\ LastEmitted(1) = "CLOSE" /\ ~gateStates[1].IsOpen
    /\ LastEmitted(2) = "OPEN" /\ gateStates[2].IsOpen
    /\ LastEmitted(3) = "NONE" /\ ~gateStates[3].IsOpen

(***************************************************************************)
(* C33  Startup ordering: initializeGateStates has completed, so that       *)
(* every gate 1..NumGates and with them every gate the routing table names  *)
(* has its closed record, before main connects and subscribes, and so       *)
(* before any reading is processed; once created, no gate record is added   *)
(* or removed; and the routing table is never changed.                      *)
(***************************************************************************)
Populated ==
    /\ DOMAIN gateStates = Gates
    /\ startup.config.routedGates \subseteq DOMAIN gateStates

ReadingProcessed == received > 0 \/ \E h \in Handlers : pc[h] # "idle"

StartupOrdering ==
    /\ []((startup.phase # "start" \/ ReadingProcessed) => Populated)
    /\ [][/\ startup.phase # "start"
                 => DOMAIN gateStates' = DOMAIN gateStates
            /\ startup'.config = startup.config]_vars

\* a reading was taken up while main was still in its loop over the topics,
\* and has opened gate 1
StartupOrderingWitness ==
    /\ startup.phase = "connected"
    /\ startup.subscribed = 1
    /\ gateStates[1].IsOpen
    /\ received > 0

(***************************************************************************)
(* C34  Cloud history bound: whenever no storeSensorHistory call is under   *)
(* way, whatever the order in which the LPUSHes and LTRIMs of the calls     *)
(* were served, the history list of the sensor holds at most 1000 entries   *)
(* and as many as were pushed when these are fewer; at every moment its     *)
(* entries are the most recently pushed ones, newest first, and it exceeds  *)
(* 1000 entries by at most one for each call between its LPUSH and LTRIM.   *)
(***************************************************************************)
Trimming == {c \in HistoryCallers : history.calls[c] = "trim"}

HistoryBound ==
    /\ Trimming = {}
          => /\ Len(history.list) <= 1000
             /\ Len(history.list) = IF Pushes < 1000 THEN Pushes ELSE 1000
    /\ \A i \in 1..Len(history.list) :
          history.list[i] = HistoryEntry(HistoryValue, Pushes - i + 1)
    /\ Len(history.list) <= 1000 + Cardinality(Trimming)

\* more than 1000 entries were pushed, every call has returned, and the
\* list holds 1000
HistoryBoundWitness ==
    /\ Trimming = {}
    /\ Pushes > 1000
    /\ Len(history.list) = 1000

(***************************************************************************)
(* C35  GET /api/sensors/:id/history returns at most as many readings as    *)
(* the limit parameter asks for: at most 100 when the request has no limit  *)
(* or one that is not a number, none when the limit is 0 or less; and the   *)
(* count it reports is the number of readings it returns.                   *)
(***************************************************************************)
LimitAsked(query) ==
    IF query \in {"0", "5", "100", "150", "-1"}
    THEN (IF Atoi(query) < 0 THEN 0 ELSE Atoi(query))
    ELSE 100

HistoryLimitRespected ==
    history.response # <<>>
        => /\ Len(history.response.history) <= LimitAsked(history.response.query)
           /\ history.response.count = Len(history.response.history)

====
